---- MODULE Spec2Model ----
(***************************************************************************)
(* Contacts backend (app/main.py): registration, login, bearer-token       *)
(* authenticated CRUD on per-user contacts.                                *)
(*                                                                         *)
(* One action per HTTP handler; each action is the whole request: the      *)
(* session's lookups, the handler's branches, the commit (with the unique  *)
(* constraints of app/models.py) and the response.                         *)
(*                                                                         *)
(* main.py addresses User rows with db.get(User, <email>); the users table *)
(* is looked up by email here, the way main.py uses it.                    *)
(* app/auth.py is not part of the sources at hand: password hashing and    *)
(* the token service are modelled from sections 4.1 and 4.2 of the design. *)
(* The slowapi rate limiter in front of create_contact is not modelled.    *)
(* Spec and SpecFields let no time pass: there a token the token service   *)
(* rejects is the forged one; SpecAuth moves the clock past the expiries.  *)
(***************************************************************************)
EXTENDS Integers, FiniteSets, Sequences, TLC

VARIABLES users, contacts, next_user_id, next_contact_id, issued, now, req, resp

vars == <<users, contacts, next_user_id, next_contact_id, issued, now, req, resp>>

-----------------------------------------------------------------------------
(* Bounds and input domains *)

MaxTime == 3
MaxIssued == 4
MaxContacts == 3

ACCESS_TOKEN_TTL == 1
REFRESH_TOKEN_TTL == 2

None == "<None>"

Emails == {"a@ex.com", "b@ex.com"}
Passwords == {"pw1", "pw2"}

FirstNames == {"", "Ann"}
LastNames == {"Doe"}
ContactEmails == {"x@c.com", "y@c.com"}
PhoneNumbers == {"555-0100"}
Birthdays == {"1990-01-01"}
AdditionalInfos == {None, "note"}

ContactIds == 1..MaxContacts

-----------------------------------------------------------------------------
(* app/schemas.py *)

ContactFields ==
    {"first_name", "last_name", "email", "phone_number", "birthday", "additional_info"}

\* The JSON bodies a client may send: the schema's fields plus an owner field
\* the schema does not declare (0 stands for "not supplied").
ContactJson ==
    [first_name : FirstNames, last_name : LastNames, email : ContactEmails,
     phone_number : PhoneNumbers, birthday : Birthdays,
     additional_info : AdditionalInfos, user_id : {0, 1}]

\* ContactCreate(**json): pydantic keeps the declared fields and drops the rest.
ContactCreate(json) == [f \in ContactFields |-> json[f]]

NoBody == [f \in ContactFields |-> None]

\* Python truthiness of a field value: None and "" are falsy.
Truthy(value) == value # None /\ value # ""

-----------------------------------------------------------------------------
(* app/auth.py (modelled from the design, sections 4.1 and 4.2) *)

get_password_hash(password) == <<"hash", password>>

verify_password(password, hashed_password) == hashed_password = <<"hash", password>>

TTL(kind) == IF kind = "access" THEN ACCESS_TOKEN_TTL ELSE REFRESH_TOKEN_TTL

create_access_token(data, t) ==
    [sub |-> data.sub, kind |-> "access", exp |-> t + ACCESS_TOKEN_TTL, sig |-> "ok"]

create_refresh_token(data, t) ==
    [sub |-> data.sub, kind |-> "refresh", exp |-> t + REFRESH_TOKEN_TTL, sig |-> "ok"]

\* The subject, or None for a bad signature or an expired token.
decode_access_token(token, t) ==
    IF token.sig = "ok" /\ t < token.exp THEN token.sub ELSE None

\* Tokens that were not signed with the secret key.
ForgedTokens ==
    {[sub |-> "a@ex.com", kind |-> "access", exp |-> MaxTime + REFRESH_TOKEN_TTL + 1,
      sig |-> "bad"]}

-----------------------------------------------------------------------------
(* Requests and responses *)

\* The Authorization header: <<>> when absent, <<token>> otherwise.
Headers == {<<>>} \cup {<<t>> : t \in issued \cup ForgedTokens}

\* The same without the refresh tokens.
AccessHeaders == {h \in Headers : h = <<>> \/ h[1].kind = "access"}

Request(op, header, username, password, contact_id, body) ==
    [op |-> op, at |-> now, header |-> header, username |-> username,
     password |-> password, contact_id |-> contact_id, body |-> body]

Response(status, detail) ==
    [status |-> status, detail |-> detail, users |-> {}, contacts |-> {}, tokens |-> {}]

UserInDB(user) == [id |-> user.id, email |-> user.email, is_active |-> user.is_active]

\* OAuth2PasswordBearer: no bearer token in the request.
NotAuthenticated == Response(401, "Not authenticated")

\* An exception no handler catches.
InternalServerError == Response(500, "Internal Server Error")

-----------------------------------------------------------------------------
(* The store: app/models.py and the session calls of app/main.py *)

\* db.get(User, key): the matching rows, {} for Python's None.
GetUser(key) == {u \in users : u.email = key}

Row(rows) == CHOOSE r \in rows : TRUE

\* users.email is unique: the commit of a second row with the email fails.
UserInsertOk(row) == \A u \in users : u.email # row.email

\* contacts.email is unique across all contacts.
ContactInsertOk(row) == \A c \in contacts : c.email # row.email

\* Faulty variant: the lookup without the owner filter.
FindContactAnyOwner(contact_id, user_id) == {c \in contacts : c.id = contact_id}

\* select(Contact).filter(Contact.id == contact_id, Contact.user_id == user.id)
FindContact(contact_id, user_id) ==
    {c \in contacts : c.id = contact_id /\ c.user_id = user_id}

\* Faulty variant: the listing without the owner filter.
ContactsOfAnyUser(user_id) == contacts

\* select(Contact).filter(Contact.user_id == user.id)
ContactsOf(user_id) == {c \in contacts : c.user_id = user_id}

-----------------------------------------------------------------------------
Init ==
    /\ users = {}
    /\ contacts = {}
    /\ next_user_id = 1
    /\ next_contact_id = 1
    /\ issued = {}
    /\ now = 0
    /\ req = [op |-> "none", at |-> 0, header |-> <<>>, username |-> None,
              password |-> None, contact_id |-> 0, body |-> NoBody]
    /\ resp = Response(0, None)

Tick ==
    /\ now < MaxTime
    /\ now' = now + 1
    /\ UNCHANGED <<users, contacts, next_user_id, next_contact_id, issued, req, resp>>

\* Faulty variant: registration without the lookup of an existing user.
RegisterOutcomeNoCheck(email, password) ==
    LET new_user == [id |-> next_user_id, email |-> email,
                     hashed_password |-> get_password_hash(password),
                     is_active |-> FALSE]
    IN  IF ~UserInsertOk(new_user)
        THEN [resp |-> InternalServerError, add |-> {}]
        ELSE [resp |-> [Response(201, None) EXCEPT !.users = {UserInDB(new_user)}],
              add |-> {new_user}]

\* POST /register/
RegisterOutcome(email, password) ==
    LET existing_user == GetUser(email)
        new_user == [id |-> next_user_id, email |-> email,
                     hashed_password |-> get_password_hash(password),
                     is_active |-> FALSE]
    IN  IF existing_user # {}
        THEN [resp |-> Response(409, "Email already registered"), add |-> {}]
        ELSE IF ~UserInsertOk(new_user)
        THEN [resp |-> InternalServerError, add |-> {}]
        ELSE [resp |-> [Response(201, None) EXCEPT !.users = {UserInDB(new_user)}],
              add |-> {new_user}]

register(emails, passwords) ==
    \E email \in emails, password \in passwords :
        LET out == RegisterOutcome(email, password) IN
        /\ users' = users \cup out.add
        /\ next_user_id' = next_user_id + Cardinality(out.add)
        /\ req' = Request("register", <<>>, email, password, 0, NoBody)
        /\ resp' = out.resp
        /\ UNCHANGED <<contacts, next_contact_id, issued, now>>

\* POST /users/
CreateUserOutcome(email, password) ==
    LET existing_user == {u \in users : u.email = email}
        new_user == [id |-> next_user_id, email |-> email,
                     hashed_password |-> get_password_hash(password),
                     is_active |-> TRUE]
    IN  IF existing_user # {}
        THEN [resp |-> Response(409, "Email already registered"), add |-> {}]
        ELSE IF ~UserInsertOk(new_user)
        THEN [resp |-> InternalServerError, add |-> {}]
        ELSE [resp |-> [Response(201, None) EXCEPT !.users = {UserInDB(new_user)}],
              add |-> {new_user}]

create_user(emails, passwords) ==
    \E email \in emails, password \in passwords :
        LET out == CreateUserOutcome(email, password) IN
        /\ users' = users \cup out.add
        /\ next_user_id' = next_user_id + Cardinality(out.add)
        /\ req' = Request("create_user", <<>>, email, password, 0, NoBody)
        /\ resp' = out.resp
        /\ UNCHANGED <<contacts, next_contact_id, issued, now>>

\* POST /token
LoginFailure == Response(401, "Incorrect email or password")

\* Faulty variant: the refresh token made by create_access_token.
LoginTokensBothAccess(user, t) ==
    {create_access_token([sub |-> user.email], t),
     create_access_token([sub |-> user.email], t)}

\* The tokens login issues for the user it found.
LoginTokens(user, t) ==
    {create_access_token([sub |-> user.email], t),
     create_refresh_token([sub |-> user.email], t)}

\* Faulty variant: an unknown email answered differently from a wrong password.
LoginOutcomeUnknownUser(username, password) ==
    LET user == GetUser(username) IN
    IF user = {} THEN [resp |-> Response(404, "User not found"), tokens |-> {}]
    ELSE IF ~verify_password(password, Row(user).hashed_password)
    THEN [resp |-> LoginFailure, tokens |-> {}]
    ELSE [resp |-> [Response(200, None) EXCEPT !.tokens = LoginTokens(Row(user), now)],
          tokens |-> LoginTokens(Row(user), now)]

LoginOutcome(username, password) ==
    LET user == GetUser(username) IN
    IF user = {} \/ ~verify_password(password, Row(user).hashed_password)
    THEN [resp |-> LoginFailure, tokens |-> {}]
    ELSE [resp |-> [Response(200, None) EXCEPT !.tokens = LoginTokens(Row(user), now)],
          tokens |-> LoginTokens(Row(user), now)]

login_for_access_token(emails, passwords) ==
    \E username \in emails, password \in passwords :
        LET out == LoginOutcome(username, password) IN
        /\ Cardinality(issued \cup out.tokens) <= MaxIssued
        /\ issued' = issued \cup out.tokens
        /\ req' = Request("login", <<>>, username, password, 0, NoBody)
        /\ resp' = out.resp
        /\ UNCHANGED <<users, contacts, next_user_id, next_contact_id, now>>

\* GET /users/me/
ReadUsersMeOutcome(header) ==
    IF header = <<>> THEN NotAuthenticated
    ELSE LET email == decode_access_token(header[1], now) IN
         IF email = None
         THEN Response(401, "Could not validate credentials")
         ELSE LET user == GetUser(email) IN
              IF user = {} THEN Response(404, "User not found")
              ELSE [Response(200, None) EXCEPT !.users = {UserInDB(Row(user))}]

read_users_me(headers) ==
    \E header \in headers :
        /\ req' = Request("read_users_me", header, None, None, 0, NoBody)
        /\ resp' = ReadUsersMeOutcome(header)
        /\ UNCHANGED <<users, contacts, next_user_id, next_contact_id, issued, now>>

\* The first lines of every /contacts/ handler:
\*     email = decode_access_token(token); user = await db.get(User, email)
\* There is no check of either result; the handler goes on to read user.id.
\* "absent": the bearer dependency rejected the request before the handler ran;
\* "crash": user is None and user.id raises; otherwise the rows of the user.
ContactCaller(header) ==
    IF header = <<>> THEN [how |-> "absent", user |-> {}]
    ELSE LET user == GetUser(decode_access_token(header[1], now)) IN
         IF user = {} THEN [how |-> "crash", user |-> {}]
         ELSE [how |-> "ok", user |-> user]

Unchanged == [contacts |-> contacts, next_contact_id |-> next_contact_id]

\* Faulty variant: the owner is the newest user, not the caller.
NewContactLatestUser(contact, user) ==
    [f \in ContactFields \cup {"id", "user_id"} |->
        IF f = "id" THEN next_contact_id
        ELSE IF f = "user_id" THEN next_user_id - 1
        ELSE contact[f]]

\* Contact(**contact.dict(), user_id=user.id), with the id the table assigns.
NewContact(contact, user) ==
    [f \in ContactFields \cup {"id", "user_id"} |->
        IF f = "id" THEN next_contact_id
        ELSE IF f = "user_id" THEN user.id
        ELSE contact[f]]

\* POST /contacts/
CreateContactOutcome(header, contact) ==
    LET caller == ContactCaller(header) IN
    IF caller.how = "absent" THEN [resp |-> NotAuthenticated, store |-> Unchanged]
    ELSE IF caller.how = "crash" THEN [resp |-> InternalServerError, store |-> Unchanged]
    ELSE LET new_contact == NewContact(contact, Row(caller.user))
         IN  IF ~ContactInsertOk(new_contact)
             THEN [resp |-> InternalServerError, store |-> Unchanged]
             ELSE [resp |-> [Response(201, None) EXCEPT !.contacts = {new_contact}],
                   store |-> [contacts |-> contacts \cup {new_contact},
                              next_contact_id |-> next_contact_id + 1]]

create_contact(headers, jsons) ==
    \E header \in headers, json \in jsons :
        LET out == CreateContactOutcome(header, ContactCreate(json)) IN
        /\ next_contact_id <= MaxContacts
        /\ contacts' = out.store.contacts
        /\ next_contact_id' = out.store.next_contact_id
        /\ req' = Request("create_contact", header, None, None, 0, ContactCreate(json))
        /\ resp' = out.resp
        /\ UNCHANGED <<users, next_user_id, issued, now>>

\* GET /contacts/
ReadContactsOutcome(header) ==
    LET caller == ContactCaller(header) IN
    IF caller.how = "absent" THEN NotAuthenticated
    ELSE IF caller.how = "crash" THEN InternalServerError
    ELSE [Response(200, None) EXCEPT !.contacts = ContactsOf(Row(caller.user).id)]

read_contacts(headers) ==
    \E header \in headers :
        /\ req' = Request("read_contacts", header, None, None, 0, NoBody)
        /\ resp' = ReadContactsOutcome(header)
        /\ UNCHANGED <<users, contacts, next_user_id, next_contact_id, issued, now>>

\* GET /contacts/{contact_id}
ReadContactOutcome(header, contact_id) ==
    LET caller == ContactCaller(header) IN
    IF caller.how = "absent" THEN NotAuthenticated
    ELSE IF caller.how = "crash" THEN InternalServerError
    ELSE LET contact == FindContact(contact_id, Row(caller.user).id) IN
         IF contact = {} THEN Response(404, "Contact not found")
         ELSE [Response(200, None) EXCEPT !.contacts = contact]

read_contact(headers) ==
    \E header \in headers, contact_id \in ContactIds :
        /\ req' = Request("read_contact", header, None, None, contact_id, NoBody)
        /\ resp' = ReadContactOutcome(header, contact_id)
        /\ UNCHANGED <<users, contacts, next_user_id, next_contact_id, issued, now>>

\* Faulty variant: every submitted field overwrites, falsy or not.
MergeAll(existing_contact, contact) ==
    [f \in DOMAIN existing_contact |->
        IF f \in ContactFields THEN contact[f] ELSE existing_contact[f]]

\* for var, value in vars(contact).items():
\*     setattr(existing_contact, var, value) if value else None
Merge(existing_contact, contact) ==
    [f \in DOMAIN existing_contact |->
        IF f \in ContactFields /\ Truthy(contact[f]) THEN contact[f]
        ELSE existing_contact[f]]

\* db.commit() in update_contact is called without await: the coroutine never
\* runs, nothing is flushed, and closing the session rolls the change back.
\* What reaches the table is the row as it was.
UpdateCommitted(existing_contact, merged) == existing_contact

\* PUT /contacts/{contact_id}
UpdateContactOutcome(header, contact_id, contact) ==
    LET caller == ContactCaller(header) IN
    IF caller.how = "absent" THEN [resp |-> NotAuthenticated, store |-> Unchanged]
    ELSE IF caller.how = "crash" THEN [resp |-> InternalServerError, store |-> Unchanged]
    ELSE LET existing_contact == FindContact(contact_id, Row(caller.user).id) IN
         IF existing_contact = {}
         THEN [resp |-> Response(404, "Contact not found"), store |-> Unchanged]
         ELSE LET merged == Merge(Row(existing_contact), contact) IN
              [resp |-> [Response(200, None) EXCEPT !.contacts = {merged}],
               store |-> [contacts |->
                              (contacts \ existing_contact) \cup
                                  {UpdateCommitted(Row(existing_contact), merged)},
                          next_contact_id |-> next_contact_id]]

update_contact(headers, jsons) ==
    \E header \in headers, contact_id \in ContactIds,
       contact \in {ContactCreate(json) : json \in jsons} :
        LET out == UpdateContactOutcome(header, contact_id, contact) IN
        /\ contacts' = out.store.contacts
        /\ next_contact_id' = out.store.next_contact_id
        /\ req' = Request("update_contact", header, None, None, contact_id, contact)
        /\ resp' = out.resp
        /\ UNCHANGED <<users, next_user_id, issued, now>>

\* Faulty variant: the delete is answered but never committed.
DeleteContactOutcomeNoCommit(header, contact_id) ==
    LET caller == ContactCaller(header) IN
    IF caller.how = "absent" THEN [resp |-> NotAuthenticated, store |-> Unchanged]
    ELSE IF caller.how = "crash" THEN [resp |-> InternalServerError, store |-> Unchanged]
    ELSE LET contact == FindContact(contact_id, Row(caller.user).id) IN
         IF contact = {}
         THEN [resp |-> Response(404, "Contact not found"), store |-> Unchanged]
         ELSE [resp |-> Response(204, None), store |-> Unchanged]

\* DELETE /contacts/{contact_id}
DeleteContactOutcome(header, contact_id) ==
    LET caller == ContactCaller(header) IN
    IF caller.how = "absent" THEN [resp |-> NotAuthenticated, store |-> Unchanged]
    ELSE IF caller.how = "crash" THEN [resp |-> InternalServerError, store |-> Unchanged]
    ELSE LET contact == FindContact(contact_id, Row(caller.user).id) IN
         IF contact = {}
         THEN [resp |-> Response(404, "Contact not found"), store |-> Unchanged]
         ELSE [resp |-> Response(204, None),
               store |-> [contacts |-> contacts \ contact,
                          next_contact_id |-> next_contact_id]]

delete_contact(headers) ==
    \E header \in headers, contact_id \in ContactIds :
        LET out == DeleteContactOutcome(header, contact_id) IN
        /\ contacts' = out.store.contacts
        /\ next_contact_id' = out.store.next_contact_id
        /\ req' = Request("delete_contact", header, None, None, contact_id, NoBody)
        /\ resp' = out.resp
        /\ UNCHANGED <<users, next_user_id, issued, now>>

-----------------------------------------------------------------------------
\* Two users and their contacts; the bodies differ in the contact email and
\* in the owner field the schema drops.
PlainJson == {json \in ContactJson : json.first_name = "Ann" /\ json.additional_info = None}

Next ==
    \/ register(Emails, {"pw1"})
    \/ login_for_access_token(Emails, Passwords)
    \/ read_users_me(AccessHeaders)
    \/ create_contact(AccessHeaders, PlainJson)
    \/ read_contacts(AccessHeaders)
    \/ read_contact(AccessHeaders)
    \/ update_contact(AccessHeaders, PlainJson)
    \/ delete_contact(AccessHeaders)

Spec == Init /\ [][Next]_vars

\* One user and every body of ContactJson.
NextFields ==
    \/ register({"a@ex.com"}, {"pw1"})
    \/ login_for_access_token({"a@ex.com"}, {"pw1"})
    \/ create_contact(AccessHeaders, ContactJson)
    \/ read_contacts(AccessHeaders)
    \/ read_contact(AccessHeaders)
    \/ update_contact(AccessHeaders, ContactJson)
    \/ delete_contact(AccessHeaders)

SpecFields == Init /\ [][NextFields]_vars

\* Users, credentials and tokens over time.
NextAuth ==
    \/ Tick
    \/ register(Emails, Passwords)
    \/ create_user(Emails, Passwords)
    \/ login_for_access_token(Emails, Passwords)
    \/ read_users_me(Headers)

SpecAuth == Init /\ [][NextAuth]_vars

-----------------------------------------------------------------------------
(* Properties *)

\* The user rows a request authenticates as: {} when the token is absent,
\* rejected by the token service, or names no stored user.
AuthUser(r) ==
    IF r.header = <<>> THEN {}
    ELSE {u \in users : u.email = decode_access_token(r.header[1], r.at)}

ContactOps == {"create_contact", "read_contacts", "read_contact",
               "update_contact", "delete_contact"}

\* The step is a request to one of the handlers ops (Tick alone moves the clock).
Handled(ops) == now' = now /\ req'.op \in ops

ById(table, id) == {c \in table : c.id = id}

\* Ids the table handed out whose rows are gone.
DeletedIds == {i \in 1..(next_contact_id - 1) : ById(contacts, i) = {}}

\* C1: a read, update or delete of a contact of another user, with a valid
\* token, is answered 404 "Contact not found" - the answer an id that does not
\* exist gets - and leaves the contact in the store as it was.
C1_OtherUsersContactNotFound ==
    [][\A c \in contacts :
         (/\ Handled({"read_contact", "update_contact", "delete_contact"})
          /\ req'.contact_id = c.id
          /\ AuthUser(req') # {}
          /\ \A u \in AuthUser(req') : u.id # c.user_id)
         => /\ resp' = Response(404, "Contact not found")
            /\ resp' = ReadContactOutcome(req'.header, 0)
            /\ c \in contacts'
            /\ contacts' = contacts]_vars

C1_Witness ==
    /\ req.op \in {"read_contact", "update_contact", "delete_contact"}
    /\ AuthUser(req) # {}
    /\ \E c \in contacts :
         /\ c.id = req.contact_id
         /\ \A u \in AuthUser(req) : u.id # c.user_id
    /\ resp.status = 404

\* C2: on every bearer-protected endpoint a request that does not authenticate
\* (no token, a token the token service rejects, a subject with no user) is
\* answered 401.
C2_AuthFailureIs401 ==
    (req.op \in ContactOps \cup {"read_users_me"} /\ AuthUser(req) = {})
        => resp.status = 401

C4_LoginFailuresIdentical ==
    [][(/\ Handled({"login"})
        /\ \A u \in users : u.email = req'.username
               => ~verify_password(req'.password, u.hashed_password))
       => /\ resp' = Response(401, "Incorrect email or password")
          /\ UNCHANGED <<users, contacts, issued>>]_vars

C4_Witness ==
    /\ req.op = "login"
    /\ resp.status = 401
    /\ \E u \in users :
         u.email = req.username /\ ~verify_password(req.password, u.hashed_password)

\* C5: a successful login issues an access and a refresh token that decode to
\* the user's email at every time before issue time + TTL(kind) and to None
\* from then on; presenting an issued token to /users/me/ answers 200 with
\* that user before the token's expiry and 401 from its expiry on.
TimesChecked == 0..(MaxTime + REFRESH_TOKEN_TTL + 1)

C6_ListIsExactlyOwnContacts ==
    (req.op = "read_contacts" /\ AuthUser(req) # {}) =>
        \A u \in AuthUser(req) :
            /\ resp.status = 200
            /\ \A c \in contacts : c \in resp.contacts <=> c.user_id = u.id
            /\ resp.contacts \subseteq contacts

C6_Witness ==
    /\ req.op = "read_contacts"
    /\ resp.status = 200
    /\ resp.contacts # {}
    /\ \E c \in contacts : c \notin resp.contacts

C8_DeleteRemovesForGood ==
    /\ [][\A c \in contacts :
            (/\ Handled({"delete_contact"})
             /\ req'.contact_id = c.id
             /\ \E u \in AuthUser(req') : u.id = c.user_id)
            => /\ resp'.status = 204
               /\ contacts' = contacts \ {c}]_vars
    /\ []((req.op = "read_contact" /\ AuthUser(req) # {} /\ req.contact_id \in DeletedIds)
            => resp = Response(404, "Contact not found"))
    /\ []((req.op = "read_contacts" /\ resp.status = 200)
            => \A c \in resp.contacts : c.id \notin DeletedIds)
    /\ [][DeletedIds \subseteq DeletedIds']_vars

C8_Witness ==
    /\ req.op = "read_contact"
    /\ AuthUser(req) # {}
    /\ req.contact_id \in DeletedIds
    /\ resp.status = 404
    /\ contacts # {}

\* C9: update_contact merges skip-falsy: in the contact it answers with, a
\* field has the request's value when that value is truthy and the stored
\* value when it is None or empty; id and owner are the stored ones; and in
\* the store a field changes only to a truthy request value, id and owner
\* never.
C9_UpdateSkipsFalsy ==
    [][\A c \in contacts :
         (/\ Handled({"update_contact"})
          /\ req'.contact_id = c.id
          /\ \E u \in AuthUser(req') : u.id = c.user_id)
         => /\ resp'.status = 200
            /\ \E m \in resp'.contacts :
                 /\ resp'.contacts = {m}
                 /\ m.id = c.id
                 /\ m.user_id = c.user_id
                 /\ \A f \in ContactFields :
                      m[f] = IF Truthy(req'.body[f]) THEN req'.body[f] ELSE c[f]
            /\ \E s \in contacts' :
                 /\ s.id = c.id
                 /\ s.user_id = c.user_id
                 /\ contacts' = (contacts \ {c}) \cup {s}
                 /\ \A f \in ContactFields :
                      s[f] # c[f] => (Truthy(req'.body[f]) /\ s[f] = req'.body[f])]_vars

C9_Witness ==
    /\ req.op = "update_contact"
    /\ resp.status = 200
    /\ req.body.first_name = ""
    /\ req.body.additional_info = None
    /\ \E m \in resp.contacts :
         /\ m.first_name = "Ann"
         /\ m.additional_info = "note"
         /\ m.email = req.body.email
         /\ \E c \in contacts : c.id = m.id /\ c.email # m.email

\* C10: when update_contact answers 200 with the updated contact, the store
\* holds that contact with those field values.
C10_UpdateIsCommitted ==
    (req.op = "update_contact" /\ resp.status = 200) => resp.contacts \subseteq contacts

\* C11: requests of different users never conflict: a user's request has the
\* outcome it would have had the other user's requests not run. In
\* particular a create_contact of an authenticated user can fail only on that
\* user's own contacts, never because another user holds the contact email.
C11_CreateFailsOnlyOnOwnContacts ==
    (req.op = "create_contact" /\ AuthUser(req) # {} /\ resp.status # 201)
        => \E c \in contacts :
             /\ c.email = req.body.email
             /\ \E u \in AuthUser(req) : c.user_id = u.id

====
